---- MODULE Spec2Model ----
(***************************************************************************)
(* EPLAN Tag Cleaner (src/main.py): the line parser parse_line, the row    *)
(* formatter format_output_row and the script body that filters,           *)
(* deduplicates, sorts and formats the parsed rows.                        *)
(*                                                                         *)
(* Python str values are TLA+ strings; a character is a string of length   *)
(* one.  The str methods the script calls are modelled by what they do.    *)
(***************************************************************************)
EXTENDS Integers, Sequences, FiniteSets

(***************************************************************************)
(* Python str builtins used by the script                                  *)
(***************************************************************************)

\* The printable ASCII characters in code point order, from 32 (space).  A
\* TLA+ string cannot hold the backquote (96): a tab holds its place, and
\* is never looked up there.
Ascii ==
    " !\"#$%&'()*+,-./0123456789:;<=>?@ABCDEFGHIJKLMNOPQRSTUVWXYZ[\\]^_\tabcdefghijklmnopqrstuvwxyz{|}~"

CharAt(s, i) == SubSeq(s, i, i)

\* ord(c): the code point of a character (tab is 9).
OrdTable ==
    [c \in {CharAt(Ascii, i) : i \in 1..Len(Ascii)} \cup {"\t"} |->
        IF c = "\t" THEN 9
        ELSE 31 + (CHOOSE i \in 1..Len(Ascii) : CharAt(Ascii, i) = c)]

ord(c) == OrdTable[c]

chr(n) == CharAt(Ascii, n - 31)

\* str.isspace() of one character: the whitespace a line of splitlines() holds.
isspace(c) == c \in {" ", "\t"}

\* str.upper() / str.lower(), character by character.
upper_char(c) == IF ord(c) >= 97 /\ ord(c) <= 122 THEN chr(ord(c) - 32) ELSE c

lower_char(c) == IF ord(c) >= 65 /\ ord(c) <= 90 THEN chr(ord(c) + 32) ELSE c

RECURSIVE upper(_)
upper(s) == IF s = "" THEN "" ELSE upper_char(CharAt(s, 1)) \o upper(SubSeq(s, 2, Len(s)))

RECURSIVE lower(_)
lower(s) == IF s = "" THEN "" ELSE lower_char(CharAt(s, 1)) \o lower(SubSeq(s, 2, Len(s)))

\* str.lstrip() / str.rstrip() / str.strip() with no argument.
RECURSIVE lstrip(_)
lstrip(s) ==
    IF s # "" /\ isspace(CharAt(s, 1)) THEN lstrip(SubSeq(s, 2, Len(s))) ELSE s

RECURSIVE rstrip(_)
rstrip(s) ==
    IF s # "" /\ isspace(CharAt(s, Len(s))) THEN rstrip(SubSeq(s, 1, Len(s) - 1)) ELSE s

strip(s) == rstrip(lstrip(s))

\* s.startswith(prefix)
startswith(s, prefix) == Len(prefix) <= Len(s) /\ SubSeq(s, 1, Len(prefix)) = prefix

\* The start positions at which sub occurs in s (every position for sub = "").
Occurrences(sub, s) ==
    {i \in 1..(Len(s) - Len(sub) + 1) : SubSeq(s, i, i + Len(sub) - 1) = sub}

\* sub in s
contains(sub, s) == Occurrences(sub, s) # {}

Min(S) == CHOOSE x \in S : \A y \in S : x <= y

Max(S) == CHOOSE x \in S : \A y \in S : x >= y

\* s.split(sep, 1) when sep occurs in s: the text before and after the FIRST sep.
split_first(s, sep) ==
    LET i == Min(Occurrences(sep, s))
    IN  <<SubSeq(s, 1, i - 1), SubSeq(s, i + Len(sep), Len(s))>>

\* s.rsplit(sep, 1) when sep is non-empty and occurs in s: the text before and
\* after the LAST sep.
rsplit_last(s, sep) ==
    LET i == Max(Occurrences(sep, s))
    IN  <<SubSeq(s, 1, i - 1), SubSeq(s, i + Len(sep), Len(s))>>

\* s.split(sep) for a non-empty sep: every piece, the empty ones included.
RECURSIVE split(_, _)
split(s, sep) ==
    IF ~contains(sep, s) THEN <<s>>
    ELSE LET p == split_first(s, sep) IN <<p[1]>> \o split(p[2], sep)

\* s.split() with no argument: the runs of non-whitespace, none of them empty.
RECURSIVE split_ws(_)
split_ws(s) ==
    LET t == lstrip(s)
        ws == {i \in 1..Len(t) : isspace(CharAt(t, i))}
    IN  IF t = "" THEN <<>>
        ELSE IF ws = {} THEN <<t>>
        ELSE <<SubSeq(t, 1, Min(ws) - 1)>> \o split_ws(SubSeq(t, Min(ws), Len(t)))

\* sep.join(parts)
RECURSIVE join(_, _)
join(sep, parts) ==
    IF parts = <<>> THEN ""
    ELSE IF Len(parts) = 1 THEN parts[1]
    ELSE parts[1] \o sep \o join(sep, Tail(parts))

\* a < b for str: ordinal comparison, code point by code point.
RECURSIVE str_lt(_, _)
str_lt(a, b) ==
    IF b = "" THEN FALSE
    ELSE IF a = "" THEN TRUE
    ELSE IF CharAt(a, 1) # CharAt(b, 1) THEN ord(CharAt(a, 1)) < ord(CharAt(b, 1))
    ELSE str_lt(SubSeq(a, 2, Len(a)), SubSeq(b, 2, Len(b)))

(***************************************************************************)
(* State: the sidebar settings (module-level globals of the script), the   *)
(* uploaded file's lines, and the script body's locals.                    *)
(***************************************************************************)
VARIABLES
    delimiter,            \* st.sidebar.text_input, default "-"
    trim_at_space,        \* checkbox, default True
    uppercase,            \* checkbox, default False
    remove_duplicates,    \* checkbox, default True
    sort_tags,            \* checkbox, default False
    filter_substring,     \* text_input, default ""
    min_length,           \* number_input 1..100, default 1
    max_length,           \* number_input 1..100, default 30
    include_description,  \* checkbox, default True
    include_line,         \* checkbox, default True
    include_cabinet,      \* checkbox, default True
    include_tag,          \* checkbox, default True
    lines,                \* raw_text.splitlines()
    idx,                  \* position of the for loop over lines (1-based)
    parsed,               \* what the last parse_line call did
    rows,                 \* the list of row dicts
    notice,               \* "" | "success" | "warning": st.success / st.warning
    pc                    \* "loop" | "dedup" | "sort" | "format" | "report" | "done" | "raised"

settings ==
    <<delimiter, trim_at_space, uppercase, remove_duplicates, sort_tags,
      filter_substring, min_length, max_length,
      include_description, include_line, include_cabinet, include_tag>>

vars == <<settings, lines, idx, parsed, rows, notice, pc>>

(***************************************************************************)
(* parse_line                                                              *)
(***************************************************************************)

\* The three ways a call of parse_line ends.
None == [kind |-> "None"]

Raise(e) == [kind |-> "Raise", exc |-> e]

Returned(row) == [kind |-> "Record", row |-> row]

\* Faulty variant of split_description: the line is never split at "=".
split_description_unsplit(raw) == [description |-> "", right_part |-> raw]

\* if "=" in raw: left, right = raw.split("=", 1) ... else ...
split_description(raw) ==
    IF contains("=", raw)
    THEN LET p == split_first(raw, "=")
         IN  [description |-> strip(p[1]), right_part |-> strip(p[2])]
    ELSE [description |-> "", right_part |-> raw]

\* Faulty variant of clean_tag: trim_at_space is ignored.
clean_tag_untrimmed(tag_raw, trim) == [kind |-> "Tag", tag |-> strip(tag_raw)]

\* if trim_at_space: tag_raw = tag_raw.split()[0]; tag = tag_raw.strip().
\* [0] of an empty list raises IndexError.
clean_tag(tag_raw, trim) ==
    IF trim
    THEN IF split_ws(tag_raw) = <<>>
         THEN Raise("IndexError")
         ELSE [kind |-> "Tag", tag |-> strip(split_ws(tag_raw)[1])]
    ELSE [kind |-> "Tag", tag |-> strip(tag_raw)]

\* Faulty variant of classify_token: a slot once filled is not overwritten.
classify_token_first_wins(token_raw, acc) ==
    LET token == strip(token_raw)
        upper_tok == upper(token)
    IN  IF token = "" THEN acc
        ELSE IF startswith(upper_tok, "LIN")
             THEN IF acc.line_id = "" THEN [acc EXCEPT !.line_id = token] ELSE acc
        ELSE IF startswith(upper_tok, "CAB")
             THEN IF acc.cabinet_id = "" THEN [acc EXCEPT !.cabinet_id = token] ELSE acc
        ELSE [acc EXCEPT !.other_loc = Append(@, token)]

\* One pass of the body of "for token in location_part.split('+')".
classify_token(token_raw, acc) ==
    LET token == strip(token_raw)
        upper_tok == upper(token)
    IN  IF token = "" THEN acc
        ELSE IF startswith(upper_tok, "LIN") THEN [acc EXCEPT !.line_id = token]
        ELSE IF startswith(upper_tok, "CAB") THEN [acc EXCEPT !.cabinet_id = token]
        ELSE [acc EXCEPT !.other_loc = Append(@, token)]

RECURSIVE classify_tokens(_, _)
classify_tokens(tokens, acc) ==
    IF tokens = <<>> THEN acc
    ELSE classify_tokens(Tail(tokens), classify_token(Head(tokens), acc))

\* location_part = location_part.strip(); line_id = ""; cabinet_id = "";
\* other_loc = []; if location_part: for token in location_part.split("+"): ...
parse_location(location_part_raw) ==
    LET location_part == strip(location_part_raw)
        empty == [line_id |-> "", cabinet_id |-> "", other_loc |-> <<>>]
    IN  IF location_part = "" THEN empty
        ELSE classify_tokens(split(location_part, "+"), empty)

\* Faulty variant of build_row: uppercase reaches the description too.
build_row_upper_description(description, loc, tag, up) ==
    [Description   |-> IF up THEN upper(description) ELSE description,
     Line          |-> IF up THEN upper(loc.line_id) ELSE loc.line_id,
     Cabinet       |-> IF up THEN upper(loc.cabinet_id) ELSE loc.cabinet_id,
     Tag           |-> IF up THEN upper(tag) ELSE tag,
     OtherLocation |-> join("+", loc.other_loc)]

\* if uppercase: ... ; return {...}
build_row(description, loc, tag, up) ==
    [Description   |-> description,
     Line          |-> IF up THEN (IF loc.line_id # "" THEN upper(loc.line_id) ELSE "")
                       ELSE loc.line_id,
     Cabinet       |-> IF up THEN (IF loc.cabinet_id # "" THEN upper(loc.cabinet_id) ELSE "")
                       ELSE loc.cabinet_id,
     Tag           |-> IF up THEN upper(tag) ELSE tag,
     OtherLocation |-> IF loc.other_loc # <<>> THEN join("+", loc.other_loc) ELSE ""]

\* parse_line with the three globals it reads passed in.
parse_line_with(line, delim, trim, up) ==
    IF line = "" \/ strip(line) = "" THEN None
    ELSE
    LET raw == strip(line)
        d == split_description(raw)
    IN  IF ~contains(delim, d.right_part) THEN None
        ELSE IF delim = "" THEN Raise("ValueError")  \* rsplit: empty separator
        ELSE
        LET p == rsplit_last(d.right_part, delim)
            t == clean_tag(p[2], trim)
        IN  IF t.kind = "Raise" THEN t
            ELSE IF t.tag = "" THEN None
            ELSE Returned(build_row(d.description, parse_location(p[1]), t.tag, up))

parse_line(line) == parse_line_with(line, delimiter, trim_at_space, uppercase)

(***************************************************************************)
(* format_output_row                                                       *)
(***************************************************************************)

\* Faulty variant of format_output_row: include_tag is not consulted.
format_output_row_always_tag(row) ==
    LET parts == IF include_description /\ row.Description # "" THEN <<row.Description>> ELSE <<>>
        loc_parts ==
            (IF include_line /\ row.Line # "" THEN <<row.Line>> ELSE <<>>)
            \o (IF include_cabinet /\ row.Cabinet # "" THEN <<row.Cabinet>> ELSE <<>>)
        loc_str == join("+", loc_parts)
        loc_tag ==
            IF row.Tag # ""
            THEN IF loc_str # "" THEN loc_str \o delimiter \o row.Tag ELSE row.Tag
            ELSE loc_str
    IN  IF parts # <<>> /\ loc_tag # "" THEN parts[1] \o " =" \o loc_tag
        ELSE IF parts # <<>> THEN parts[1]
        ELSE loc_tag

\* Faulty variant of format_output_row: the tag is joined on with "+".
format_output_row_plus_tag(row) ==
    LET parts == IF include_description /\ row.Description # "" THEN <<row.Description>> ELSE <<>>
        loc_parts ==
            (IF include_line /\ row.Line # "" THEN <<row.Line>> ELSE <<>>)
            \o (IF include_cabinet /\ row.Cabinet # "" THEN <<row.Cabinet>> ELSE <<>>)
            \o (IF include_tag /\ row.Tag # "" THEN <<row.Tag>> ELSE <<>>)
        loc_tag == join("+", loc_parts)
    IN  IF parts # <<>> /\ loc_tag # "" THEN parts[1] \o " =" \o loc_tag
        ELSE IF parts # <<>> THEN parts[1]
        ELSE loc_tag

format_output_row(row) ==
    LET desc == row.Description
        line_id == row.Line
        cab_id == row.Cabinet
        tag == row.Tag
        parts == IF include_description /\ desc # "" THEN <<desc>> ELSE <<>>
        loc_parts ==
            (IF include_line /\ line_id # "" THEN <<line_id>> ELSE <<>>)
            \o (IF include_cabinet /\ cab_id # "" THEN <<cab_id>> ELSE <<>>)
        loc_str == IF loc_parts # <<>> THEN join("+", loc_parts) ELSE ""
        loc_tag ==
            IF include_tag /\ tag # ""
            THEN IF loc_str # "" THEN loc_str \o delimiter \o tag ELSE tag
            ELSE loc_str
    IN  IF parts # <<>> /\ loc_tag # "" THEN parts[1] \o " =" \o loc_tag
        ELSE IF parts # <<>> THEN parts[1]
        ELSE IF loc_tag # "" THEN loc_tag
        ELSE ""

(***************************************************************************)
(* The script body: filters, deduplication, sort                           *)
(***************************************************************************)

\* not (min_length <= len(tag) <= max_length) -> continue
length_ok(tag) == min_length <= Len(tag) /\ Len(tag) <= max_length

\* if filter_substring: if filter_substring.lower() not in tag.lower(): continue
substring_ok(tag) ==
    filter_substring # "" => contains(lower(filter_substring), lower(tag))

keep_row(row) == length_ok(row.Tag) /\ substring_ok(row.Tag)

\* seen_tags = set(); unique_rows = []; for r in rows: ...
RECURSIVE unique_from(_, _)
unique_from(rs, seen_tags) ==
    IF rs = <<>> THEN <<>>
    ELSE IF Head(rs).Tag \in seen_tags THEN unique_from(Tail(rs), seen_tags)
    ELSE <<Head(rs)>> \o unique_from(Tail(rs), seen_tags \cup {Head(rs).Tag})

\* Faulty variant of unique_rows: the last row of each Tag is kept.
RECURSIVE unique_rows_keep_last(_)
unique_rows_keep_last(rs) ==
    IF rs = <<>> THEN <<>>
    ELSE IF \E i \in 2..Len(rs) : rs[i].Tag = Head(rs).Tag
         THEN unique_rows_keep_last(Tail(rs))
    ELSE <<Head(rs)>> \o unique_rows_keep_last(Tail(rs))

unique_rows(rs) == unique_from(rs, {})

\* Faulty variant of insert_sorted: equal Tags are not kept in input order.
RECURSIVE insert_sorted_unstable(_, _)
insert_sorted_unstable(r, placed) ==
    IF placed = <<>> THEN <<r>>
    ELSE IF ~str_lt(Head(placed).Tag, r.Tag) THEN <<r>> \o placed
    ELSE <<Head(placed)>> \o insert_sorted_unstable(r, Tail(placed))

\* Faulty variant of insert_sorted: the Tags are compared ignoring case.
RECURSIVE insert_sorted_ignore_case(_, _)
insert_sorted_ignore_case(r, placed) ==
    IF placed = <<>> THEN <<r>>
    ELSE IF str_lt(lower(r.Tag), lower(Head(placed).Tag)) THEN <<r>> \o placed
    ELSE <<Head(placed)>> \o insert_sorted_ignore_case(r, Tail(placed))

\* sorted(rows, key=lambda r: r["Tag"]): ascending by Tag, stable.  r goes
\* after every row already placed whose Tag is not greater than its own.
RECURSIVE insert_sorted(_, _)
insert_sorted(r, placed) ==
    IF placed = <<>> THEN <<r>>
    ELSE IF str_lt(r.Tag, Head(placed).Tag) THEN <<r>> \o placed
    ELSE <<Head(placed)>> \o insert_sorted(r, Tail(placed))

RECURSIVE sorted_from(_, _)
sorted_from(rs, placed) ==
    IF rs = <<>> THEN placed
    ELSE sorted_from(Tail(rs), insert_sorted(Head(rs), placed))

sorted(rs) == sorted_from(rs, <<>>)

\* r["Output"] = format_output_row(r)
with_output(r) ==
    [Output        |-> format_output_row(r),
     Description   |-> r.Description,
     Line          |-> r.Line,
     Cabinet       |-> r.Cabinet,
     Tag           |-> r.Tag,
     OtherLocation |-> r.OtherLocation]

(***************************************************************************)
(* Inputs                                                                  *)
(***************************************************************************)

\* Longest line of the exhaustive family of short lines.
MaxLen == 3

\* Most lines in an uploaded file.
MaxLines == 3

\* Every string over a small alphabet, up to n characters.
RECURSIVE Strings(_)
Strings(n) ==
    IF n = 0 THEN {""}
    ELSE LET S == Strings(n - 1)
         IN  S \cup {s \o c : s \in S, c \in {"=", "-", " ", "+", "a"}}

\* Label lines put together from the parts of the grammar, well-formed or not.
Heads == {"", "=", "Sv Om =", " x = "}

Locations ==
    {"", "LIN1", "LIN1+CAB1", "lin1+LIN2", "lin1+CAB1+x1+LIN2+cab2+Y2", " Lin1 ++ X1 + Y2", "LIN-1"}

Separators == {"", "-", "--"}

TagTexts == {"", " ", "6F13", "7x02 extra", " 7X02 extra", "a\tb "}

\* The example label line of the specification.
Example == "SERVISNA VTICNICA ELE. OMARA =LIN1+CAB1-6F13"

ParseLines ==
    {h \o l \o s \o t : h \in Heads, l \in Locations, s \in Separators, t \in TagTexts}
    \cup Strings(MaxLen) \cup {Example}

Delimiters == {"-", "", "+", "--", " "}

\* The lines of the files run through the whole script.
FileLines == {"=LIN1-6F13", "Dup =CAB1-6F13 x", "=-6f13", "b =X1-B", "=LIN1-"}

RECURSIVE Files(_)
Files(n) ==
    IF n = 0 THEN {<<>>}
    ELSE LET F == Files(n - 1)
         IN  F \cup {Append(f, l) : f \in F, l \in FileLines}

\* Rows handed to format_output_row, any field empty or not.
FormatRows ==
    [Description : {"", "Sv Om"}, Line : {"", "LIN1"}, Cabinet : {"", "CAB1"},
     Tag : {"", "6F13"}, OtherLocation : {"", "X1"}]

(***************************************************************************)
(* Initial states                                                          *)
(***************************************************************************)

NotCalled == [kind |-> "NotCalled"]

\* The sidebar as the script creates it.
DefaultParsing == delimiter = "-" /\ trim_at_space = TRUE /\ uppercase = FALSE

DefaultPipeline ==
    /\ remove_duplicates = TRUE /\ sort_tags = FALSE /\ filter_substring = ""
    /\ min_length = 1 /\ max_length = 30

DefaultOutput ==
    /\ include_description = TRUE /\ include_line = TRUE
    /\ include_cabinet = TRUE /\ include_tag = TRUE

\* The top of the script body, a file uploaded.
AtTop == idx = 1 /\ parsed = NotCalled /\ rows = <<>> /\ notice = "" /\ pc = "loop"

\* A run of the whole script over a small file, the pipeline settings chosen.
Init ==
    /\ delimiter = "-" /\ trim_at_space = TRUE /\ uppercase \in BOOLEAN
    /\ remove_duplicates \in BOOLEAN /\ sort_tags \in BOOLEAN
    /\ filter_substring \in {"", "f1"}
    /\ min_length \in {1, 2} /\ max_length \in {1, 30}
    /\ DefaultOutput
    /\ lines \in Files(MaxLines)
    /\ AtTop

\* A run over a one-line file, the parsing settings chosen.
InitParse ==
    /\ delimiter \in Delimiters /\ trim_at_space \in BOOLEAN /\ uppercase \in BOOLEAN
    /\ DefaultPipeline /\ DefaultOutput
    /\ lines \in {<<l>> : l \in ParseLines}
    /\ AtTop

\* format_output_row applied to one row, the output settings chosen.
InitFormat ==
    /\ delimiter \in {"-", "", "--"} /\ trim_at_space = TRUE /\ uppercase = FALSE
    /\ DefaultPipeline
    /\ include_description \in BOOLEAN /\ include_line \in BOOLEAN
    /\ include_cabinet \in BOOLEAN /\ include_tag \in BOOLEAN
    /\ lines = <<>> /\ idx = 1 /\ parsed = NotCalled /\ notice = ""
    /\ rows \in {<<r>> : r \in FormatRows}
    /\ pc = "format"

(***************************************************************************)
(* The script body, one action per statement                               *)
(***************************************************************************)

\* One pass of "for line in lines": parse, filter, append.  An exception of
\* parse_line is not caught: the run ends there.
ParseLine ==
    /\ pc = "loop" /\ idx <= Len(lines)
    /\ LET p == parse_line(lines[idx])
       IN  /\ parsed' = p
           /\ IF p.kind = "Raise"
              THEN pc' = "raised" /\ UNCHANGED <<idx, rows>>
              ELSE /\ idx' = idx + 1
                   /\ rows' = IF p.kind = "Record" /\ keep_row(p.row)
                              THEN Append(rows, p.row) ELSE rows
                   /\ pc' = pc
    /\ UNCHANGED <<settings, lines, notice>>

LoopExit ==
    /\ pc = "loop" /\ idx > Len(lines)
    /\ pc' = "dedup"
    /\ UNCHANGED <<settings, lines, idx, parsed, rows, notice>>

\* if remove_duplicates: ... rows = unique_rows
RemoveDuplicates ==
    /\ pc = "dedup"
    /\ rows' = IF remove_duplicates THEN unique_rows(rows) ELSE rows
    /\ pc' = "sort"
    /\ UNCHANGED <<settings, lines, idx, parsed, notice>>

\* if sort_tags: rows = sorted(rows, key=lambda r: r["Tag"])
SortTags ==
    /\ pc = "sort"
    /\ rows' = IF sort_tags THEN sorted(rows) ELSE rows
    /\ pc' = "format"
    /\ UNCHANGED <<settings, lines, idx, parsed, notice>>

\* for r in rows: r["Output"] = format_output_row(r)
FormatOutput ==
    /\ pc = "format"
    /\ rows' = [i \in DOMAIN rows |-> with_output(rows[i])]
    /\ pc' = "report"
    /\ UNCHANGED <<settings, lines, idx, parsed, notice>>

\* if rows: st.success(...) ... else: st.warning(...)
Report ==
    /\ pc = "report"
    /\ notice' = IF rows # <<>> THEN "success" ELSE "warning"
    /\ pc' = "done"
    /\ UNCHANGED <<settings, lines, idx, parsed, rows>>

Next == ParseLine \/ LoopExit \/ RemoveDuplicates \/ SortTags \/ FormatOutput \/ Report

NextFormat == FormatOutput \/ Report

Spec == Init /\ [][Next]_vars

SpecParse == InitParse /\ [][Next]_vars

SpecFormat == InitFormat /\ [][NextFormat]_vars

(***************************************************************************)
(* What the claims speak of                                                *)
(***************************************************************************)

\* parse_line has been called, and on which line.
Called == parsed.kind # "NotCalled"

LastLine == IF parsed.kind = "Raise" THEN lines[idx] ELSE lines[idx - 1]

IsRecord == parsed.kind = "Record"

\* The stripped line's text after its first "=", or all of it without one.
Segment(line) ==
    LET raw == strip(line)
        eqs == {i \in 1..Len(raw) : CharAt(raw, i) = "="}
    IN  IF eqs = {} THEN raw ELSE SubSeq(raw, Min(eqs) + 1, Len(raw))

\* The position of the last occurrence of delim in s (delim occurs).
LastAt(s, delim) ==
    CHOOSE i \in Occurrences(delim, s) : \A j \in Occurrences(delim, s) : j <= i

\* The text before / after the last delimiter of the line's segment.
LocationSegment(line, delim) ==
    LET seg == strip(Segment(line)) IN SubSeq(seg, 1, LastAt(seg, delim) - 1)

TextAfter(line, delim) ==
    LET seg == strip(Segment(line))
    IN  SubSeq(seg, LastAt(seg, delim) + Len(delim), Len(seg))

AllSpace(s) == \A i \in 1..Len(s) : isspace(CharAt(s, i))

NoSpace(s) == \A i \in 1..Len(s) : ~isspace(CharAt(s, i))

\* The configured casing of a parsed field.
Cased(s) == IF uppercase THEN upper(s) ELSE s

\* The non-empty trimmed tokens of a location segment, left to right.
RECURSIVE NonEmpty(_)
NonEmpty(toks) ==
    IF toks = <<>> THEN <<>>
    ELSE IF strip(Head(toks)) = "" THEN NonEmpty(Tail(toks))
    ELSE <<strip(Head(toks))>> \o NonEmpty(Tail(toks))

LocationTokens(line, delim) == NonEmpty(split(LocationSegment(line, delim), "+"))

IsLin(t) == startswith(upper(t), "LIN")

IsCab(t) == ~IsLin(t) /\ startswith(upper(t), "CAB")

IsOther(t) == ~IsLin(t) /\ ~IsCab(t)

FirstOr(toks) == IF toks = <<>> THEN "" ELSE toks[1]

LastOr(toks) == IF toks = <<>> THEN "" ELSE toks[Len(toks)]

(***************************************************************************)
(* C1  parse_line never raises                                             *)
(***************************************************************************)

\* C1: every call of parse_line ends in a record or None, never an exception.
C1_NeverRaises == Called => parsed.kind \in {"None", "Record"}

(***************************************************************************)
(* C2  Which LIN / CAB token a record keeps                                *)
(***************************************************************************)

BeforeFirstSpace(s) ==
    LET ws == {i \in 1..Len(s) : isspace(CharAt(s, i))}
    IN  IF ws = {} THEN s ELSE SubSeq(s, 1, Min(ws) - 1)

\* t is s without the whitespace around it.
IsStripped(t, s) ==
    \E i \in 1..(Len(s) + 1) : \E j \in 0..Len(s) :
        /\ t = SubSeq(s, i, j)
        /\ AllSpace(SubSeq(s, 1, i - 1)) /\ AllSpace(SubSeq(s, j + 1, Len(s)))
        /\ t # "" => ~isspace(CharAt(t, 1)) /\ ~isspace(CharAt(t, Len(t)))

\* t is the first run of non-whitespace characters of s.
IsFirstToken(t, s) ==
    \E i \in 1..Len(s) : \E j \in i..Len(s) :
        /\ t = SubSeq(s, i, j) /\ NoSpace(t)
        /\ AllSpace(SubSeq(s, 1, i - 1))
        /\ j < Len(s) => isspace(CharAt(s, j + 1))

\* C3, as claimed: with trim_at_space the tag is the text after the last
\* delimiter cut before its first whitespace character, then stripped, also
\* when that text begins with whitespace; without it, the whole stripped text.
C3_CutAtFirstSpace ==
    IsRecord =>
        LET text == TextAfter(LastLine, delimiter)
        IN  IF trim_at_space
            THEN parsed.row.Tag = Cased(strip(BeforeFirstSpace(text)))
            ELSE parsed.row.Tag = Cased(strip(text))

\* C3, amended: with trim_at_space the tag of a record is the first
\* whitespace-delimited token of the text after the last delimiter (leading
\* whitespace is skipped, not cut at); without it, the whole stripped text.
C3_FirstToken ==
    IsRecord =>
        LET text == TextAfter(LastLine, delimiter)
            cands == {SubSeq(text, i, j) : i \in 1..Len(text), j \in 1..Len(text)}
        IN  \E t \in cands :
                /\ parsed.row.Tag = Cased(t)
                /\ IF trim_at_space THEN IsFirstToken(t, text) ELSE IsStripped(t, text)

\* trim_at_space is on and a record was parsed from a text that begins with
\* whitespace and holds a second token.
C3_Witness ==
    /\ IsRecord /\ trim_at_space /\ delimiter = "-"
    /\ TextAfter(LastLine, delimiter) = " 7X02 extra"
    /\ parsed.row.Tag = "7X02"

(***************************************************************************)
(* C4  A record's tag is never empty; no delimiter, no record              *)
(***************************************************************************)

\* C4: a record's Tag is non-empty, and a line whose segment after the first
\* "=" does not hold the delimiter parses to None.
C4_TagNonEmpty ==
    /\ IsRecord => parsed.row.Tag # ""
    /\ Called /\ (\A i \in 1..(Len(Segment(LastLine)) - Len(delimiter) + 1) :
                     SubSeq(Segment(LastLine), i, i + Len(delimiter) - 1) # delimiter)
         => parsed = None

\* A record was parsed, trim_at_space off, from a text that begins with
\* whitespace.
C4_Witness ==
    /\ IsRecord /\ ~trim_at_space
    /\ TextAfter(LastLine, delimiter) = " 7X02 extra"
    /\ parsed.row.Tag \in {"7X02 extra", "7X02 EXTRA"}

(***************************************************************************)
(* C5  Deduplication                                                       *)
(***************************************************************************)

\* The rows the loop over lines collects: the records parsed, in input
\* order, that pass the length and substring filters.
RECURSIVE ParsedRows(_)
ParsedRows(ls) ==
    IF ls = <<>> THEN <<>>
    ELSE LET p == parse_line(Head(ls))
         IN  (IF p.kind = "Record" THEN <<p.row>> ELSE <<>>) \o ParsedRows(Tail(ls))

Filtered == SelectSeq(ParsedRows(lines), keep_row)

\* A row without the Output annotation.
Core(r) ==
    [Description |-> r.Description, Line |-> r.Line, Cabinet |-> r.Cabinet,
     Tag |-> r.Tag, OtherLocation |-> r.OtherLocation]

AfterDedup == pc \in {"sort", "format", "report", "done"}

AfterSort == pc \in {"format", "report", "done"}

\* C5: with remove_duplicates, no two rows of the output share a Tag, and
\* the row kept for each Tag (compared exactly, case included) is the first
\* filtered row with that Tag in input order.
C5_DedupFirstWins ==
    AfterDedup /\ remove_duplicates =>
        /\ \A i, j \in DOMAIN rows : i # j => rows[i].Tag # rows[j].Tag
        /\ \A i \in DOMAIN rows : \E k \in DOMAIN Filtered :
              /\ Core(rows[i]) = Filtered[k]
              /\ \A m \in 1..(k - 1) : Filtered[m].Tag # Filtered[k].Tag
        /\ \A k \in DOMAIN Filtered : \E i \in DOMAIN rows : rows[i].Tag = Filtered[k].Tag

\* The output of a file with two different rows of Tag 6F13 and a row of
\* Tag 6f13: the first 6F13 row and the 6f13 row.
C5_Witness ==
    /\ pc = "done" /\ remove_duplicates /\ ~uppercase /\ ~sort_tags
    /\ lines = <<"Dup =CAB1-6F13 x", "=LIN1-6F13", "=-6f13">>
    /\ Len(rows) = 2
    /\ rows[1].Description = "Dup" /\ rows[2].Tag = "6f13"

(***************************************************************************)
(* C6  Sort                                                                *)
(***************************************************************************)

str_le(a, b) == ~str_lt(b, a)

Bijections(n) == {f \in [1..n -> 1..n] : \A i, j \in 1..n : f[i] = f[j] => i = j}

\* out holds the rows of in, ascending by Tag, rows of equal Tag in the
\* order they have in in.
IsStableSort(in, out) ==
    /\ Len(out) = Len(in)
    /\ \E f \in Bijections(Len(in)) :
          /\ \A i \in DOMAIN out : out[i] = in[f[i]]
          /\ \A i, j \in DOMAIN out :
                i < j => /\ str_le(out[i].Tag, out[j].Tag)
                         /\ out[i].Tag = out[j].Tag => f[i] < f[j]

\* C6: with sort_tags, the sort step turns the rows into a permutation of
\* themselves that is ascending by Tag under ordinal comparison and keeps
\* rows of equal Tag in their input order; so every adjacent pair of the
\* output is in order.
C6_SortStable ==
    /\ [][pc = "sort" /\ sort_tags => IsStableSort(rows, rows')]_vars
    /\ [](AfterSort /\ sort_tags =>
             \A i \in 1..(Len(rows) - 1) : str_le(rows[i].Tag, rows[i + 1].Tag))

\* A sorted output, deduplication off: two different rows of Tag 6F13 kept in
\* their input order, moved ahead of the 6f13 row that came first.
C6_Witness ==
    /\ pc = "format" /\ sort_tags /\ ~remove_duplicates /\ ~uppercase
    /\ lines = <<"=-6f13", "Dup =CAB1-6F13 x", "=LIN1-6F13">>
    /\ Len(rows) = 3
    /\ rows[1].Description = "Dup" /\ rows[2].Line = "LIN1" /\ rows[3].Tag = "6f13"

(***************************************************************************)
(* C7  The pipeline is idempotent                                          *)
(***************************************************************************)

\* Length filter, substring filter, optional dedup, optional sort, in order.
Pipeline(rs) ==
    LET kept == SelectSeq(rs, keep_row)
        uniq == IF remove_duplicates THEN unique_rows(kept) ELSE kept
    IN  IF sort_tags THEN sorted(uniq) ELSE uniq

\* C7: the pipeline applied to its own output gives that output again.
C7_Idempotent == AfterSort => Pipeline(rows) = rows

\* A pipeline output, sorted and not deduplicated: the substring filter
\* dropped a row, and two different rows of equal Tag remain.
C7_Witness ==
    /\ pc = "format" /\ sort_tags /\ ~remove_duplicates
    /\ filter_substring = "f1"
    /\ lines = <<"b =X1-B", "Dup =CAB1-6F13 x", "=LIN1-6F13">>
    /\ Len(rows) = 2 /\ rows[1].Description = "Dup" /\ rows[2].Line = "LIN1"

(***************************************************************************)
(* C8  format_output_row                                                   *)
(***************************************************************************)

\* The '+'-join of Line (if selected and non-empty) then Cabinet (likewise).
Location(r) ==
    LET l == include_line /\ r.Line # ""
        c == include_cabinet /\ r.Cabinet # ""
    IN  CASE l /\ c -> r.Line \o "+" \o r.Cabinet
          [] l /\ ~c -> r.Line
          [] ~l /\ c -> r.Cabinet
          [] OTHER -> ""

\* C8: Output is "<Description> =<loc_tag>" when both are there, else the one
\* that is, else empty; loc_tag is location + delimiter + Tag, the Tag alone
\* without a location, the location alone without the Tag; and Output is
\* empty only when every selected field is empty.
C8_FormatShape ==
    pc \in {"report", "done"} =>
        \A i \in DOMAIN rows :
            LET r == rows[i]
                location == Location(r)
                t == include_tag /\ r.Tag # ""
                d == include_description /\ r.Description # ""
                loc_tag == CASE t /\ location # "" -> location \o delimiter \o r.Tag
                             [] t /\ location = "" -> r.Tag
                             [] OTHER -> location
            IN  /\ d /\ loc_tag # "" => r.Output = r.Description \o " =" \o loc_tag
                /\ d /\ loc_tag = "" => r.Output = r.Description
                /\ ~d => r.Output = loc_tag
                /\ r.Output = "" <=>
                      /\ include_description => r.Description = ""
                      /\ include_line => r.Line = ""
                      /\ include_cabinet => r.Cabinet = ""
                      /\ include_tag => r.Tag = ""

\* A row with every field filled was formatted with the description and the
\* cabinet deselected.
C8_Witness ==
    /\ pc = "done" /\ delimiter = "--"
    /\ ~include_description /\ include_line /\ ~include_cabinet /\ include_tag
    /\ Len(rows) = 1
    /\ rows[1].Description = "Sv Om" /\ rows[1].Cabinet = "CAB1"
    /\ rows[1].Output = "LIN1--6F13"

(***************************************************************************)
(* C9  Round trip                                                          *)
(***************************************************************************)

AllIncluded == include_description /\ include_line /\ include_cabinet /\ include_tag

\* C9: with the four include flags on, the Output of an accepted line holds
\* the record's Tag; the Tag is, up to uppercasing, a piece of the text after
\* the line's last delimiter with only whitespace before it and, after it,
\* nothing or whitespace first; and the example line is reproduced exactly.
C9_RoundTrip ==
    pc \in {"report", "done"} /\ AllIncluded /\ Len(lines) = 1 /\ Len(rows) = 1 =>
        LET r == rows[1]
            text == TextAfter(lines[1], delimiter)
        IN  /\ contains(r.Tag, r.Output)
            /\ \E i \in 1..Len(text) : \E j \in i..Len(text) :
                  /\ r.Tag = Cased(SubSeq(text, i, j))
                  /\ AllSpace(SubSeq(text, 1, i - 1))
                  /\ j < Len(text) => isspace(CharAt(text, j + 1))
                  /\ ~trim_at_space => AllSpace(SubSeq(text, j + 1, Len(text)))
            /\ lines[1] = Example /\ DefaultParsing => r.Output = Example

\* The example line went through the script with the default settings.
C9_Witness ==
    /\ pc = "done" /\ lines = <<Example>> /\ DefaultParsing /\ AllIncluded
    /\ Len(rows) = 1 /\ rows[1].Tag = "6F13" /\ rows[1].Output = Example

(***************************************************************************)
(* C10  uppercase changes casing only                                      *)
(***************************************************************************)

\* C10: the same line parsed with uppercase on and off: both parse or neither
\* does, Tag, Line and Cabinet of the first are the uppercased ones of the
\* second, Description and OtherLocation are the same.
C10_UppercaseOnly ==
    Called =>
        LET other == parse_line_with(LastLine, delimiter, trim_at_space, ~uppercase)
            on == IF uppercase THEN parsed ELSE other
            off == IF uppercase THEN other ELSE parsed
        IN  /\ on.kind = off.kind
            /\ on.kind = "Record" =>
                  /\ on.row.Tag = upper(off.row.Tag)
                  /\ on.row.Line = upper(off.row.Line)
                  /\ on.row.Cabinet = upper(off.row.Cabinet)
                  /\ on.row.Description = off.row.Description
                  /\ on.row.OtherLocation = off.row.OtherLocation

\* A line with lower-case letters in every field was parsed with uppercase on.
C10_Witness ==
    /\ IsRecord /\ uppercase /\ trim_at_space /\ delimiter = "-"
    /\ LastLine = " x = lin1+CAB1+x1+LIN2+cab2+Y2-7x02 extra"
    /\ parsed.row =
          [Description |-> "x", Line |-> "LIN2", Cabinet |-> "CAB2",
           Tag |-> "7X02", OtherLocation |-> "x1+Y2"]

====
